---------------------------- MODULE Spec2Model ----------------------------
(***************************************************************************)
(* A model of tcia_downloader/__main__.py: the manifest reader and the     *)
(* download scheduler of download_manifest (specification Spec) and the    *)
(* reorganization pass of unpack (specification SpecUnpack).               *)
(*                                                                         *)
(* Text is modelled as sequences of one-character strings, so that         *)
(* str.strip and the substring test `"ListOfSeries" in line` are computed  *)
(* and not assumed.                                                        *)
(***************************************************************************)
EXTENDS Integers, Sequences, FiniteSets, TLC

(***************************************************************************)
(* Bounds of the model.                                                    *)
(***************************************************************************)
MaxLines == 3      \* lines in a manifest file
MaxJobs == 2       \* largest --jobs value tried
MaxLimit == 2      \* largest --limit value tried
MaxRuns == 2       \* invocations of the program against one destination
MaxFiles == 2      \* files the archives extract into unpacked/

(***************************************************************************)
(* Text.                                                                   *)
(***************************************************************************)
\* The characters str.strip() removes that occur in the modelled lines.
Whitespace == {" ", "\t", "\n", "\r", "\f"}

\* The sentinel substring of line 45.
Sentinel == <<"L","i","s","t","O","f","S","e","r","i","e","s">>

\* The lines a manifest is made of: a header line that almost contains the
\* sentinel, the sentinel line, and three kinds of series lines.
HeaderLine == <<"L","i","s","t","O","f","=","\n">>
SentinelLine == Sentinel \o <<"=","\n">>
SeriesLineA == <<"1","\n">>
SeriesLineB == <<" ","2"," ","3","\t","\n">>
BlankLine == <<"\n">>
Lines == {HeaderLine, SentinelLine, SeriesLineA, SeriesLineB, BlankLine}

BoundedSeq(S, n) == UNION {[1..k -> S] : k \in 0..n}
Manifests == BoundedSeq(Lines, MaxLines)

Range(s) == {s[i] : i \in DOMAIN s}

\* `sub in line` of Python: sub occurs as a contiguous substring.
Contains(line, sub) ==
    \E i \in 0..(Len(line) - Len(sub)) : SubSeq(line, i + 1, i + Len(sub)) = sub

\* str.strip(): drop leading, then trailing whitespace.
RECURSIVE LStrip(_)
LStrip(s) ==
    IF s # <<>> /\ Head(s) \in Whitespace THEN LStrip(Tail(s)) ELSE s

RECURSIVE RStrip(_)
RStrip(s) ==
    IF s # <<>> /\ s[Len(s)] \in Whitespace
    THEN RStrip(SubSeq(s, 1, Len(s) - 1))
    ELSE s

Strip(s) == RStrip(LStrip(s))

(***************************************************************************)
(* Manifest reader (lines 43-49).                                          *)
(***************************************************************************)
\* The for loop of lines 44-46 over the file iterator: the index of the line
\* at which it breaks, 0 if the iterator is exhausted first.
RECURSIVE ScanForSentinel(_, _)
ScanForSentinel(lines, i) ==
    IF i > Len(lines) THEN 0
    ELSE IF Contains(lines[i], Sentinel) THEN i
    ELSE ScanForSentinel(lines, i + 1)

\* The else branch of the for loop (lines 47-48): the loop ended without break.
NoRaise(lines) == FALSE
SentinelMissing(lines) == ScanForSentinel(lines, 1) = 0

\* What the file iterator still yields after the loop.
RestOfFile(lines) ==
    LET p == ScanForSentinel(lines, 1)
    IN  IF p = 0 THEN <<>> ELSE SubSeq(lines, p + 1, Len(lines))

\* Line 49: [series.strip() for series in f].
ReadSeriesKeepSentinel(lines) ==
    LET p == ScanForSentinel(lines, 1)
        rest == IF p = 0 THEN <<>> ELSE SubSeq(lines, p, Len(lines))
    IN  [i \in 1..Len(rest) |-> Strip(rest[i])]
ReadSeries(lines) ==
    LET rest == RestOfFile(lines)
    IN  [i \in 1..Len(rest) |-> Strip(rest[i])]

(***************************************************************************)
(* --limit (lines 51-52, 151-153).  args.limit is None (<<>>) or <<k>>.    *)
(***************************************************************************)
NoLimit == <<>>
Limits == {NoLimit} \cup {<<k>> : k \in 0..MaxLimit}

\* list[:k] of Python.
SliceTo(list, k) ==
    IF k >= 0
    THEN SubSeq(list, 1, IF k < Len(list) THEN k ELSE Len(list))
    ELSE SubSeq(list, 1, IF Len(list) + k > 0 THEN Len(list) + k ELSE 0)

\* `if args.limit:` is the truth value of the argument: None and 0 are false.
Truthy(lim) == lim # NoLimit /\ lim[1] # 0

ApplyLimit(list, lim) == IF Truthy(lim) THEN SliceTo(list, lim[1]) ELSE list


(***************************************************************************)
(* State.                                                                  *)
(***************************************************************************)
VARIABLES
    manifest,       \* the lines of the manifest file args.collection
    limit,          \* args.limit
    jobs,           \* args.jobs
    args_unpack,    \* args.unpack
    files,          \* the series s for which dest/{s}.zip is a file
    dest_manifest,  \* dest/manifest.tcia: <<>> or <<the copied lines>>
    pc,             \* position of the main thread in download_manifest
    series_list,    \* the local series_list
    idx,            \* position of the loop of line 58 in series_list
    futures,        \* the local futures; each entry is one submitted task
    bar,            \* the count of the progress bar
    failed_jobs,    \* the local failed_jobs
    result,         \* the local result (a dict: a function on its keys)
    ci,             \* position of the loop of line 70 in futures
    returned,       \* the value download_manifest returned, once pc = "done"
    stdout,         \* what lines 78-81 printed
    run,            \* number of the current invocation of the program
    files0,         \* history: files when the current invocation started
    prev,           \* history: <<>> or <<what the previous run returned and
                    \* how many retrieval calls it made>>
    upc,            \* position of the main thread in unpack
    headers,        \* the header of each extracted file, by the file's identity
    tree,           \* the files below unpacked/: path |-> identity of the file
    dirs,           \* the names of the directories directly under unpacked/
    unpacked_files, \* the entries of the local unpacked_files not yet visited
    unpack_result   \* the local result of unpack

vars == <<manifest, limit, jobs, args_unpack, files, dest_manifest, pc, series_list, idx,
          futures, bar, failed_jobs, result, ci, returned, stdout, run,
          files0, prev, upc, headers, tree, dirs, unpacked_files,
          unpack_result>>

dlvars == <<manifest, limit, jobs, args_unpack, files, dest_manifest, pc, series_list, idx,
            futures, bar, failed_jobs, result, ci, returned, stdout, run,
            files0, prev>>
unvars == <<upc, headers, tree, dirs, unpacked_files, unpack_result>>

EmptyDict == <<>>
NoOutput == [banner |-> FALSE, jobs |-> <<>>]

(***************************************************************************)
(* The worker pool (ThreadPoolExecutor(args.jobs), line 57) and futures.   *)
(* A future is [series, pos, tries, state, result]: pos is the position of *)
(* its series in series_list and tries the number of calls of              *)
(* download_image made for it (both kept for the properties only), state is*)
(* "pending" (queued), "running" (download_image has been called and has   *)
(* not returned) or "done".                                                *)
(***************************************************************************)
Pending(futs) == {k \in DOMAIN futs : futs[k].state = "pending"}
Running(futs) == {k \in DOMAIN futs : futs[k].state = "running"}

\* Future.done() (line 71).
DoneOnceStarted(fut) == fut.state # "pending"
Done(fut) == fut.state = "done"

\* The pool has max_workers = args.jobs threads: a queued task starts only on
\* a free one.
PoolUnbounded(futs, n) == TRUE
PoolCanStart(futs, n) == Cardinality(Running(futs)) < n

\* The pool's work queue is first in, first out.
NextQueued(futs) == CHOOSE k \in Pending(futs) : \A m \in Pending(futs) : k <= m

\* Leaving the with block (line 57) is shutdown(wait=True): every worker
\* thread is joined, so every submitted task has finished.
PoolNotJoined(futs) == TRUE
PoolJoined(futs) == \A k \in DOMAIN futs : Done(futs[k])

\* Path(dest, f"{series}.zip").is_file() (lines 59-60).
IsFileNever(fs, series) == FALSE
IsFileInverted(fs, series) == series \notin fs
IsFile(fs, series) == series \in fs

\* Line 69: {k: True for k in series_list}.
AllTrue(list) == [k \in Range(list) |-> TRUE]

\* Lines 74-75: the job a failed future is attributed to, for the future at
\* position i of futures (i counts from 1 here, from 0 in the code).
FailedJob(list, futs, i) == list[i]

(***************************************************************************)
(* Initial state: the program is started on some manifest, with some       *)
(* arguments, on a destination that may already hold archives.             *)
(***************************************************************************)
Init ==
    /\ manifest \in Manifests
    /\ limit \in Limits
    /\ jobs \in 1..MaxJobs
    /\ args_unpack = FALSE
    /\ files \in SUBSET Range(ReadSeries(manifest))
    /\ dest_manifest = <<>>
    /\ pc = "start"
    /\ series_list = <<>>
    /\ idx = 1
    /\ futures = <<>>
    /\ bar = 0
    /\ failed_jobs = <<>>
    /\ result = EmptyDict
    /\ ci = 1
    /\ returned = EmptyDict
    /\ stdout = NoOutput
    /\ run = 1
    /\ files0 = files
    /\ prev = <<>>
    /\ upc = "idle"
    /\ headers = <<>>
    /\ tree = <<>>
    /\ dirs = {}
    /\ unpacked_files = {}
    /\ unpack_result = <<>>

(***************************************************************************)
(* download_manifest, main thread.                                         *)
(***************************************************************************)
\* Lines 35-49: copy the manifest, then read the series list or raise.
ReadManifest ==
    /\ pc = "start"
    /\ dest_manifest' = <<manifest>>
    /\ IF SentinelMissing(manifest)
       THEN /\ pc' = "error"
            /\ UNCHANGED series_list
       ELSE /\ pc' = "limit"
            /\ series_list' = ReadSeries(manifest)
    /\ UNCHANGED <<manifest, limit, jobs, files, idx, futures, bar,
                   failed_jobs, result, ci, returned, stdout, run, files0, prev,
                   unvars, args_unpack>>

\* Lines 51-56.
LimitSeries ==
    /\ pc = "limit"
    /\ series_list' = ApplyLimit(series_list, limit)
    /\ pc' = "submit"
    /\ idx' = 1
    /\ futures' = <<>>
    /\ bar' = 0
    /\ UNCHANGED <<manifest, limit, jobs, files, dest_manifest, failed_jobs,
                   result, ci, returned, stdout, run, files0, prev,
                   unvars, args_unpack>>

\* One iteration of the loop of lines 58-65.
SubmitOrSkip ==
    /\ pc = "submit"
    /\ idx <= Len(series_list)
    /\ LET series == series_list[idx]
       IN  IF ~IsFile(files, series)
           THEN /\ futures' = Append(futures,
                       [series |-> series, pos |-> idx, tries |-> 0,
                        state |-> "pending", result |-> FALSE])
                /\ UNCHANGED bar
           ELSE /\ bar' = bar + 1
                /\ UNCHANGED futures
    /\ idx' = idx + 1
    /\ UNCHANGED <<manifest, limit, jobs, files, dest_manifest, pc, series_list,
                   failed_jobs, result, ci, returned, stdout, run, files0, prev,
                   unvars, args_unpack>>

\* The end of the with block (line 57), then lines 68-69.
ExitPool ==
    /\ pc = "submit"
    /\ idx > Len(series_list)
    /\ PoolJoined(futures)
    /\ pc' = "collect"
    /\ failed_jobs' = <<>>
    /\ result' = AllTrue(series_list)
    /\ ci' = 1
    /\ UNCHANGED <<manifest, limit, jobs, files, dest_manifest, series_list, idx,
                   futures, bar, returned, stdout, run, files0, prev,
                   unvars, args_unpack>>

\* One iteration of the loop of lines 70-75; the busy wait of lines 71-72
\* lets it proceed only once the future is done.
Collect ==
    /\ pc = "collect"
    /\ ci <= Len(futures)
    /\ Done(futures[ci])
    /\ IF ~futures[ci].result
       THEN LET job == FailedJob(series_list, futures, ci)
            IN  /\ failed_jobs' = Append(failed_jobs, job)
                /\ result' = [result EXCEPT ![job] = FALSE]
       ELSE UNCHANGED <<failed_jobs, result>>
    /\ ci' = ci + 1
    /\ UNCHANGED <<manifest, limit, jobs, files, dest_manifest, pc, series_list,
                   idx, futures, bar, returned, stdout, run, files0, prev,
                   unvars, args_unpack>>

\* Lines 78-81: the summary is printed if failed_jobs is not empty.
PrintSummaryAlways(failed, out) == [banner |-> TRUE, jobs |-> failed]
PrintSummary(failed, out) ==
    IF failed # <<>> THEN [banner |-> TRUE, jobs |-> failed] ELSE out

\* Lines 76-83.
Return ==
    /\ pc = "collect"
    /\ ci > Len(futures)
    /\ stdout' = PrintSummary(failed_jobs, stdout)
    /\ returned' = result
    /\ pc' = "done"
    /\ UNCHANGED <<manifest, limit, jobs, files, dest_manifest, series_list, idx,
                   futures, bar, failed_jobs, result, ci, run, files0, prev,
                   unvars, args_unpack>>

(***************************************************************************)
(* Worker threads of the pool.                                             *)
(***************************************************************************)
\* A free worker takes the oldest queued task and calls download_image
\* (lines 21-22, 61).
WorkerStart ==
    /\ Pending(futures) # {}
    /\ PoolCanStart(futures, jobs)
    /\ futures' = [futures EXCEPT ![NextQueued(futures)].state = "running",
                                  ![NextQueued(futures)].tries = @ + 1]
    /\ UNCHANGED <<manifest, limit, jobs, files, dest_manifest, pc, series_list,
                   idx, bar, failed_jobs, result, ci, returned, stdout, run,
                   files0, prev,
                   unvars, args_unpack>>

\* tcia_client.get_image returns: TRUE iff the archive is then present and
\* complete; on FALSE an incomplete file may or may not have been left.
GetImage(fs, series, ok, partial) == IF ok \/ partial THEN fs \cup {series} ELSE fs

\* download_image returns ok for task k; the done callback of line 62 runs.
WorkerFinishRetry(k, ok, partial) ==
    /\ k \in Running(futures)
    /\ ok => ~partial
    /\ files' = GetImage(files, futures[k].series, ok, partial)
    /\ futures' = [futures EXCEPT ![k].state = IF ok THEN "done" ELSE "pending",
                                  ![k].result = ok]
    /\ bar' = bar + 1
    /\ UNCHANGED <<manifest, limit, jobs, dest_manifest, pc, series_list, idx,
                   failed_jobs, result, ci, returned, stdout, run, files0, prev,
                   unvars, args_unpack>>
WorkerFinish(k, ok, partial) ==
    /\ k \in Running(futures)
    /\ ok => ~partial
    /\ files' = GetImage(files, futures[k].series, ok, partial)
    /\ futures' = [futures EXCEPT ![k].state = "done", ![k].result = ok]
    /\ bar' = bar + 1
    /\ UNCHANGED <<manifest, limit, jobs, dest_manifest, pc, series_list, idx,
                   failed_jobs, result, ci, returned, stdout, run, files0, prev,
                   unvars, args_unpack>>

(***************************************************************************)
(* The program is run again on the same manifest, arguments and            *)
(* destination.                                                            *)
(***************************************************************************)
Rerun ==
    /\ pc = "done"
    /\ run < MaxRuns
    /\ run' = run + 1
    /\ prev' = <<[returned |-> returned, calls |-> Len(futures)]>>
    /\ files0' = files
    /\ pc' = "start"
    /\ series_list' = <<>>
    /\ idx' = 1
    /\ futures' = <<>>
    /\ bar' = 0
    /\ failed_jobs' = <<>>
    /\ result' = EmptyDict
    /\ ci' = 1
    /\ returned' = EmptyDict
    /\ stdout' = NoOutput
    /\ UNCHANGED <<manifest, limit, jobs, files, dest_manifest, unvars, args_unpack>>

Next ==
    \/ ReadManifest
    \/ LimitSeries
    \/ SubmitOrSkip
    \/ ExitPool
    \/ Collect
    \/ Return
    \/ WorkerStart
    \/ \E k \in DOMAIN futures, ok \in BOOLEAN, partial \in BOOLEAN :
           WorkerFinish(k, ok, partial)
    \/ Rerun

Spec == Init /\ [][Next]_vars


(***************************************************************************)
(* unpack (lines 116-134).  A path below unpacked/ is the sequence of its  *)
(* components: <<name>> or <<directory, name>>.  An extracted file keeps   *)
(* its identity, the name it was extracted under, wherever it is moved.    *)
(***************************************************************************)
\* An attribute of a header is absent (<<>>) or <<its value>>; the value may
\* be the empty string.
Absent == <<>>
EmptyString == <<>>
None == <<>>

StudyS1 == <<"S", "1">>
SeriesR1 == <<"R", "1">>
DcmExt == <<".", "d", "c", "m">>

\* f"{series}.dcm" (line 111).
DcmName(series) == series \o DcmExt

\* The names archives extract files under: two plain names, one that is the
\* name rename_to_series gives a file of series R1, one that is the name of
\* the case directory of study S1.
FileNames == {<<"a">>, <<"b">>, DcmName(SeriesR1), StudyS1}

\* What pydicom.dcmread finds in a file: not a DICOM file at all, or a
\* dataset whose StudyInstanceUID and SeriesInstanceUID are absent, empty or
\* set.
Headers ==
    {[dicom |-> FALSE, study |-> Absent, series |-> Absent]} \cup
    [dicom : {TRUE},
     study : {Absent, <<EmptyString>>, <<StudyS1>>},
     series : {Absent, <<EmptyString>>, <<SeriesR1>>}]

\* The batches the archives hold: at most MaxFiles files under distinct names.
Batches ==
    UNION {[ns -> Headers] :
              ns \in {x \in SUBSET FileNames : Cardinality(x) <= MaxFiles}}

Parent(path) == SubSeq(path, 1, Len(path) - 1)
BaseName(path) == path[Len(path)]

\* pydicom.dcmread(path, stop_before_pixels=True) returns a dataset: path is
\* a file and a DICOM file; it raises otherwise (lines 87, 103).
Readable(hdrs, t, path) == path \in DOMAIN t /\ hdrs[t[path]].dicom

\* Path.rename(target) of an existing file onto a path that is no directory:
\* a file already at target is replaced.
Rename(t, src, dst) ==
    [p \in (DOMAIN t \ {src}) \cup {dst} |-> IF p = dst THEN t[src] ELSE t[p]]

Raised(t, d) == [raised |-> TRUE, ret |-> None, tree |-> t, dirs |-> d]
Returned(v, t, d) == [raised |-> FALSE, ret |-> v, tree |-> t, dirs |-> d]

\* create_case_subdir(dcm_path, dest) (lines 86-99) on the file system
\* (t, d): whether it raised, what it returned, the file system it left.
CreateCaseSubdir(hdrs, t, d, dcm_path) ==
    IF ~Readable(hdrs, t, dcm_path) THEN Raised(t, d)
    ELSE LET study == hdrs[t[dcm_path]].study
         IN  IF study = Absent \/ study[1] = EmptyString THEN Returned(None, t, d)
             ELSE IF <<study[1]>> \in DOMAIN t
                  THEN Raised(t, d)     \* mkdir: the path is a file
                  ELSE LET new_file == <<study[1], BaseName(dcm_path)>>
                       IN  Returned(new_file, Rename(t, dcm_path, new_file),
                                    d \cup {study[1]})

\* rename_to_series(dcm_path) (lines 102-113).
RenameToSeriesNoEmptyTest(hdrs, t, d, dcm_path) ==
    IF ~Readable(hdrs, t, dcm_path) THEN Raised(t, d)
    ELSE LET series == hdrs[t[dcm_path]].series
         IN  IF series = Absent THEN Returned(None, t, d)
             ELSE LET new_file == Append(Parent(dcm_path), DcmName(series[1]))
                  IN  Returned(new_file, Rename(t, dcm_path, new_file), d)
RenameToSeries(hdrs, t, d, dcm_path) ==
    IF ~Readable(hdrs, t, dcm_path) THEN Raised(t, d)
    ELSE LET series == hdrs[t[dcm_path]].series
         IN  IF series = Absent \/ series[1] = EmptyString THEN Returned(None, t, d)
             ELSE LET new_file == Append(Parent(dcm_path), DcmName(series[1]))
                  IN  IF Len(new_file) = 1 /\ new_file[1] \in d
                      THEN Raised(t, d)     \* rename: the target is a directory
                      ELSE Returned(new_file, Rename(t, dcm_path, new_file), d)

\* The state in which unpack is called: download_manifest has returned (here
\* after a run that found the only archive of its manifest in place), the
\* archives under dest hold some batch of files, and unpacked/ may hold a
\* case directory of an earlier run.
InitUnpack ==
    /\ manifest = <<SentinelLine, SeriesLineA>>
    /\ limit = NoLimit
    /\ jobs = 1
    /\ args_unpack = TRUE
    /\ files = {<<"1">>}
    /\ dest_manifest = <<manifest>>
    /\ pc = "done"
    /\ series_list = <<<<"1">>>>
    /\ idx = 2
    /\ futures = <<>>
    /\ bar = 1
    /\ failed_jobs = <<>>
    /\ result = AllTrue(series_list)
    /\ ci = 1
    /\ returned = result
    /\ stdout = NoOutput
    /\ run = 1
    /\ files0 = files
    /\ prev = <<>>
    /\ upc = "extract"
    /\ headers \in Batches
    /\ tree = <<>>
    /\ dirs \in SUBSET ({StudyS1} \ DOMAIN headers)
    /\ unpacked_files = {}
    /\ unpack_result = <<>>

\* Lines 117-121: every archive is extracted into unpacked/.
Extract ==
    /\ upc = "extract"
    /\ tree' = [p \in {<<n>> : n \in DOMAIN headers} |-> p[1]]
    /\ upc' = "glob"
    /\ UNCHANGED <<dlvars, headers, dirs, unpacked_files, unpack_result>>

\* Lines 120-121 raise on an archive that cannot be opened or extracted; the
\* archives before it have been extracted.
ExtractFails(ns) ==
    /\ upc = "extract"
    /\ ns \subseteq DOMAIN headers
    /\ tree' = [p \in {<<n>> : n \in ns} |-> p[1]]
    /\ upc' = "error"
    /\ UNCHANGED <<dlvars, headers, dirs, unpacked_files, unpack_result>>

\* Lines 125-126: the entries directly under unpacked/, files and
\* directories, in the order the directory scan yields them.
GlobAfterError ==
    /\ upc \in {"glob", "error"}
    /\ unpacked_files' = {p \in DOMAIN tree : Len(p) = 1} \cup {<<n>> : n \in dirs}
    /\ unpack_result' = <<>>
    /\ upc' = "loop"
    /\ UNCHANGED <<dlvars, headers, tree, dirs>>
Glob ==
    /\ upc = "glob"
    /\ unpacked_files' = {p \in DOMAIN tree : Len(p) = 1} \cup {<<n>> : n \in dirs}
    /\ unpack_result' = <<>>
    /\ upc' = "loop"
    /\ UNCHANGED <<dlvars, headers, tree, dirs>>

\* One iteration of the loop of lines 127-133, for the entry f.
Visit(f) ==
    /\ upc = "loop"
    /\ f \in unpacked_files
    /\ unpacked_files' = unpacked_files \ {f}
    /\ LET r1 == CreateCaseSubdir(headers, tree, dirs, f)
       IN  IF r1.raised
           THEN UNCHANGED <<tree, dirs, unpack_result>>
           ELSE LET r2 == RenameToSeries(headers, r1.tree, r1.dirs,
                                         IF r1.ret # None THEN r1.ret ELSE f)
                IN  /\ tree' = r2.tree
                    /\ dirs' = r2.dirs
                    /\ unpack_result' = IF r2.raised THEN unpack_result
                                        ELSE Append(unpack_result, r2.ret)
    /\ UNCHANGED <<dlvars, headers, upc>>

\* Line 134.
ReturnUnpack ==
    /\ upc = "loop"
    /\ unpacked_files = {}
    /\ upc' = "returned"
    /\ UNCHANGED <<dlvars, headers, tree, dirs, unpacked_files, unpack_result>>

NextUnpack ==
    \/ Extract
    \/ \E ns \in SUBSET DOMAIN headers : ExtractFails(ns)
    \/ Glob
    \/ \E f \in unpacked_files : Visit(f)
    \/ ReturnUnpack

SpecUnpack == InitUnpack /\ [][NextUnpack]_vars

(***************************************************************************)
(* main (lines 137-144): download_manifest or download_collection, then    *)
(* unpack if --unpack was given.  Specification SpecMain runs the whole    *)
(* program once on a manifest of two series.                               *)
(***************************************************************************)
\* The batches tried in SpecMain: at most one extracted file.
MainBatches == {b \in Batches : Cardinality(DOMAIN b) <= 1}

\* pc = "collection": the collection argument does not contain ".tcia"
\* (line 138).
InitMain ==
    /\ manifest = <<SentinelLine, SeriesLineA, SeriesLineB>>
    /\ limit = NoLimit
    /\ jobs \in 1..MaxJobs
    /\ args_unpack \in BOOLEAN
    /\ files \in SUBSET {<<"1">>}
    /\ dest_manifest = <<>>
    /\ pc \in {"start", "collection"}
    /\ series_list = <<>>
    /\ idx = 1
    /\ futures = <<>>
    /\ bar = 0
    /\ failed_jobs = <<>>
    /\ result = EmptyDict
    /\ ci = 1
    /\ returned = EmptyDict
    /\ stdout = NoOutput
    /\ run = 1
    /\ files0 = files
    /\ prev = <<>>
    /\ upc = "idle"
    /\ headers = <<>>
    /\ tree = <<>>
    /\ dirs = {}
    /\ unpacked_files = {}
    /\ unpack_result = <<>>

\* Lines 140-141 and 25-31: download_collection always raises.
DownloadCollection ==
    /\ pc = "collection"
    /\ pc' = "error"
    /\ UNCHANGED <<manifest, limit, jobs, files, dest_manifest, series_list,
                   idx, futures, bar, failed_jobs, result, ci, returned,
                   stdout, run, files0, prev, unvars, args_unpack>>

\* Lines 143-144: download_manifest has returned and --unpack was given;
\* unpack is called.  What the archives under dest hold shows now; without
\* any archive nothing is extracted.
CallUnpack ==
    /\ pc = "done"
    /\ args_unpack
    /\ upc = "idle"
    /\ upc' = "extract"
    /\ headers' \in IF files = {} THEN {<<>>} ELSE MainBatches
    /\ dirs' \in SUBSET ({StudyS1} \ DOMAIN headers')
    /\ UNCHANGED <<dlvars, tree, unpacked_files, unpack_result>>

NextMain ==
    \/ ReadManifest
    \/ LimitSeries
    \/ SubmitOrSkip
    \/ ExitPool
    \/ Collect
    \/ Return
    \/ WorkerStart
    \/ \E k \in DOMAIN futures, ok \in BOOLEAN, partial \in BOOLEAN :
           WorkerFinish(k, ok, partial)
    \/ DownloadCollection
    \/ CallUnpack
    \/ Extract
    \/ \E ns \in SUBSET DOMAIN headers : ExtractFails(ns)
    \/ Glob
    \/ \E f \in unpacked_files : Visit(f)
    \/ ReturnUnpack

SpecMain == InitMain /\ [][NextMain]_vars

(***************************************************************************)
(* One run of download_manifest under fair scheduling: the main thread     *)
(* keeps running, an idle worker takes a queued task, and every call of    *)
(* the retrieval client returns.                                           *)
(***************************************************************************)
MainThread ==
    \/ ReadManifest
    \/ LimitSeries
    \/ SubmitOrSkip
    \/ ExitPool
    \/ Collect
    \/ Return

NextLive ==
    \/ ReadManifest
    \/ LimitSeries
    \/ SubmitOrSkip
    \/ ExitPool
    \/ Collect
    \/ Return
    \/ WorkerStart
    \/ \E k \in DOMAIN futures, ok \in BOOLEAN, partial \in BOOLEAN :
           WorkerFinish(k, ok, partial)

Fairness ==
    /\ WF_vars(MainThread)
    /\ WF_vars(WorkerStart)
    /\ \A k \in 1..MaxLines :
           WF_vars(\E ok \in BOOLEAN, partial \in BOOLEAN :
                       WorkerFinish(k, ok, partial))

SpecLive == Init /\ [][NextLive]_vars /\ Fairness

(***************************************************************************)
(* Properties of download_manifest.                                        *)
(***************************************************************************)
\* The retrieval calls made so far for series j, and what they returned.
Invoked(j) ==
    {k \in DOMAIN futures : futures[k].series = j /\ futures[k].state # "pending"}
Outcomes(j) ==
    {futures[k].result : k \in {m \in Invoked(j) : futures[m].state = "done"}}

\* The positions of series_list the loop of line 58 passed without submitting.
Skipped ==
    {p \in 1..(idx - 1) : \A k \in DOMAIN futures : futures[k].pos # p}

Min(a, b) == IF a < b THEN a ELSE b

\* C1: the returned mapping has one entry per considered series; the entry of
\* j is true if j's archive existed beforehand or the client returned true
\* for j, and false exactly when the client was called for j and reported
\* failure.
C1_OutcomePerJob ==
    pc = "done" =>
        /\ DOMAIN returned = Range(series_list)
        /\ \A j \in Range(series_list) :
              /\ (j \in files0 \/ TRUE \in Outcomes(j)) => returned[j]
              /\ ~returned[j] <=> FALSE \in Outcomes(j)

\* C2: at most args.jobs retrieval calls have started and not returned.
C2_BoundedInFlight == Cardinality(Running(futures)) <= jobs

\* C2 witness: every worker is busy and a submitted job waits in the queue.
C2_Witness ==
    /\ Cardinality(Running(futures)) = jobs
    /\ Pending(futures) # {}

\* A manifest names each series once (the unique Job Identifiers of the data
\* model).
NoDuplicates(list) ==
    \A p \in DOMAIN list : \A q \in DOMAIN list : list[p] = list[q] => p = q

\* C3: a series whose archive existed when the scheduler examined it is never
\* passed to the client in that run and is recorded as true (stated for
\* manifests that name each series once).
C3_SkipExisting ==
    NoDuplicates(series_list) => \A p \in Skipped :
        /\ Invoked(series_list[p]) = {}
        /\ pc = "done" => returned[series_list[p]]

\* C4: with --limit k, k >= 0, exactly the first min(k, N) series of the
\* manifest are considered: they are the keys of the returned mapping and no
\* series at a later position is passed to the client.
C4_LimitConsidered ==
    (pc = "done" /\ limit # NoLimit) =>
        LET all == ReadSeries(manifest)
            n == Min(limit[1], Len(all))
        IN  /\ series_list = SubSeq(all, 1, n)
            /\ DOMAIN returned = {all[i] : i \in 1..n}
            /\ \A k \in DOMAIN futures : futures[k].pos <= n

\* C5: when download_manifest returns, no retrieval call is in flight or
\* still queued.
C5_ReturnAfterAllTasks ==
    pc = "done" => \A k \in DOMAIN futures : futures[k].state = "done"

\* C5 witness: a run with two submitted tasks has returned.
C5_Witness == pc = "done" /\ Len(futures) >= 2

\* C6: a failed retrieval never aborts the batch: the only fatal error is the
\* one raised before anything is submitted, and when the run returns, every
\* considered series whose archive did not exist has been passed to the
\* client, whatever the other calls returned.
C6_FailureDoesNotAbort ==
    /\ pc = "error" => futures = <<>>
    /\ pc = "done" =>
          \A j \in Range(series_list) : j \notin files0 => Invoked(j) # {}

\* C6 witness: the first submitted task failed, a later one was still run and
\* the run returned.
C6_Witness ==
    /\ pc = "done"
    /\ Len(futures) >= 2
    /\ ~futures[1].result
    /\ futures[2].state = "done"

\* C7: a run that follows a run in which every job succeeded makes no
\* retrieval call and returns true for every considered series.
C7_SecondRunSkipsAll ==
    (run >= 2 /\ \A j \in DOMAIN prev[1].returned : prev[1].returned[j]) =>
        /\ futures = <<>>
        /\ pc = "done" =>
              /\ DOMAIN returned = Range(series_list)
              /\ \A j \in DOMAIN returned : returned[j]

\* C7 witness: the first run downloaded two archives, the second has returned.
C7_Witness ==
    /\ run = 2
    /\ pc = "done"
    /\ prev[1].calls >= 2
    /\ \A j \in DOMAIN prev[1].returned : prev[1].returned[j]
    /\ Cardinality(DOMAIN returned) >= 2

\* No line of the manifest contains the sentinel.
NoSentinelLine == \A i \in DOMAIN manifest : ~Contains(manifest[i], Sentinel)

\* C8: without a sentinel line download_manifest ends in the fatal error:
\* nothing is submitted, no retrieval call is made, nothing is returned.
C8_MissingSentinelFatal ==
    NoSentinelLine =>
        /\ pc \in {"start", "error"}
        /\ futures = <<>>
        /\ returned = EmptyDict

\* C8 witness: a manifest of series lines without sentinel has been rejected.
C8_Witness ==
    /\ pc = "error"
    /\ NoSentinelLine
    /\ Len(manifest) >= 2
    /\ SeriesLineA \in Range(manifest)

\* s is line without its leading and trailing whitespace.
IsStripped(s, line) ==
    \E a \in 0..Len(line) : \E b \in a..Len(line) :
        /\ s = SubSeq(line, a + 1, b)
        /\ \A i \in 1..a : line[i] \in Whitespace
        /\ \A i \in (b + 1)..Len(line) : line[i] \in Whitespace
        /\ s # <<>> => (s[1] \notin Whitespace /\ s[Len(s)] \notin Whitespace)

\* C9: the series list read from the manifest is the lines after the first
\* sentinel line, each stripped, in file order, none left out.
C9_SeriesAfterSentinel ==
    pc = "limit" =>
        \E p \in DOMAIN manifest :
            /\ Contains(manifest[p], Sentinel)
            /\ \A q \in 1..(p - 1) : ~Contains(manifest[q], Sentinel)
            /\ Len(series_list) = Len(manifest) - p
            /\ \A i \in 1..Len(series_list) :
                  IsStripped(series_list[i], manifest[p + i])

\* C9 witness: a header line is dropped and a padded series line is stripped.
C9_Witness ==
    /\ pc = "limit"
    /\ manifest = <<HeaderLine, SentinelLine, SeriesLineB>>
    /\ series_list = <<<<"2", " ", "3">>>>


(***************************************************************************)
(* Properties of unpack.                                                   *)
(***************************************************************************)
\* The header of the extracted file id yields a study and a series.
HasStudyAndSeries(id) ==
    /\ headers[id].dicom
    /\ headers[id].study \notin {Absent, <<EmptyString>>}
    /\ headers[id].series \notin {Absent, <<EmptyString>>}

\* unpacked/S/R.dcm for the study S and series R of the file id.
CasePath(id) == <<headers[id].study[1], DcmName(headers[id].series[1])>>

\* No file was extracted under the name of a case directory of the batch.
NoFileNamedAsStudy ==
    \A id \in DOMAIN headers :
        headers[id].study # Absent => headers[id].study[1] \notin DOMAIN headers

\* C10: after the pass every extracted file with a study and a series is at
\* unpacked/S/R.dcm and no longer at the path it was extracted to, also when
\* several files of the batch carry the same study and series (stated for
\* batches in which no file bears the name of a case directory).
C10_FilesAtCasePath ==
    (upc = "returned" /\ NoFileNamedAsStudy) =>
        \A id \in DOMAIN headers :
            HasStudyAndSeries(id) =>
                /\ CasePath(id) \in DOMAIN tree
                /\ tree[CasePath(id)] = id
                /\ <<id>> \notin DOMAIN tree


\* The header of the file id is readable and yields the attribute value v.
Valued(v) == v \notin {Absent, <<EmptyString>>}

\* C11: after the pass a file whose header yields a study S but no series is
\* at unpacked/S/{its original name} (stated for batches in which no file
\* bears the name of a case directory).
C11_StudyOnlyKeepsName ==
    (upc = "returned" /\ NoFileNamedAsStudy) =>
        \A id \in DOMAIN headers :
            (headers[id].dicom /\ Valued(headers[id].study)
                /\ ~Valued(headers[id].series)) =>
                /\ <<headers[id].study[1], id>> \in DOMAIN tree
                /\ tree[<<headers[id].study[1], id>>] = id

\* C12: after the pass a file that is no DICOM file is still at
\* unpacked/{its original name}, unchanged (stated for batches in which no
\* file bears the name of a case directory).
C12_BadFileStays ==
    (upc = "returned" /\ NoFileNamedAsStudy) =>
        \A id \in DOMAIN headers :
            ~headers[id].dicom => (<<id>> \in DOMAIN tree /\ tree[<<id>>] = id)

\* C13: the list unpack returns holds one path per file that was renamed to
\* its series and nothing else: no null placeholder.
C13_ResultOnlyRenamed ==
    upc = "returned" =>
        /\ \A i \in DOMAIN unpack_result : unpack_result[i] # None
        /\ \A i \in DOMAIN unpack_result : unpack_result[i] \in DOMAIN tree

\* C19: the pass neither destroys nor duplicates files: as many files are
\* below unpacked/ after it as were extracted.
C19_NoFileLost ==
    upc = "returned" => Cardinality(DOMAIN tree) = Cardinality(DOMAIN headers)


\* C14 as claimed: after the pass a DICOM file without study is at its
\* original path under its original name and is not in the result, whatever
\* its series (stated for batches in which no file bears the name of a case
\* directory).
C14_NoStudyUntouched ==
    (upc = "returned" /\ NoFileNamedAsStudy) =>
        \A id \in DOMAIN headers :
            (headers[id].dicom /\ ~Valued(headers[id].study)) =>
                /\ <<id>> \in DOMAIN tree
                /\ tree[<<id>>] = id
                /\ <<id>> \notin Range(unpack_result)

\* C14 as amended: when the pass visits a DICOM file without study, the file
\* is not moved into a case directory; if it has no series either, the visit
\* changes nothing below unpacked/ and appends only a null placeholder to the
\* result; if it has a series R, the visit renames it to unpacked/R.dcm,
\* replacing a file already there, and appends that path to the result.
C14_NoStudyRenamedInPlace ==
    [][\A f \in unpacked_files :
          (/\ upc = "loop"
           /\ f \notin unpacked_files'
           /\ f \in DOMAIN tree
           /\ headers[tree[f]].dicom
           /\ ~Valued(headers[tree[f]].study)) =>
              LET series == headers[tree[f]].series
                  target == <<DcmName(series[1])>>
              IN  /\ dirs' = dirs
                  /\ IF ~Valued(series)
                     THEN /\ tree' = tree
                          /\ unpack_result' = Append(unpack_result, None)
                     ELSE /\ target \in DOMAIN tree'
                          /\ tree'[target] = tree[f]
                          /\ f # target => f \notin DOMAIN tree'
                          /\ DOMAIN tree' \subseteq DOMAIN tree \cup {target}
                          /\ \A p \in DOMAIN tree \ {f, target} :
                                p \in DOMAIN tree' /\ tree'[p] = tree[p]
                          /\ unpack_result' = Append(unpack_result, target)
      ]_vars

\* C14 witness: a file without study and with series R1 has been renamed to
\* unpacked/R1.dcm and is in the result, and the pass has returned.
C14_Witness ==
    /\ upc = "returned"
    /\ \E id \in DOMAIN headers \ {DcmName(SeriesR1)} :
          /\ headers[id].dicom
          /\ ~Valued(headers[id].study)
          /\ headers[id].series = <<SeriesR1>>
          /\ <<DcmName(SeriesR1)>> \in DOMAIN tree
          /\ tree[<<DcmName(SeriesR1)>>] = id
          /\ <<DcmName(SeriesR1)>> \in Range(unpack_result)


\* C18: when an archive cannot be opened or extracted the error leaves unpack
\* and the run stops: the reorganization loop is never entered, every file
\* below unpacked/ is where it was extracted, and nothing happens afterwards.
C18_ExtractErrorStops ==
    /\ [](upc = "error" =>
            /\ unpacked_files = {}
            /\ unpack_result = <<>>
            /\ \A p \in DOMAIN tree : p = <<tree[p]>>)
    /\ [][upc = "error" => UNCHANGED unvars]_vars

\* C18 witness: the second of two archives failed after the first had been
\* extracted.
C18_Witness ==
    /\ upc = "error"
    /\ Cardinality(DOMAIN headers) = 2
    /\ Cardinality(DOMAIN tree) = 1


(***************************************************************************)
(* Further properties of download_manifest.                                *)
(***************************************************************************)
\* C15: the failure summary is printed iff the returned mapping has a false
\* entry, it lists exactly the series mapped to false, and the mapping
\* returned is the one built before printing.
C15_SummaryMatchesOutcome ==
    pc = "done" =>
        /\ stdout.banner <=> (\E j \in DOMAIN returned : ~returned[j])
        /\ Range(stdout.jobs) = {j \in DOMAIN returned : ~returned[j]}
        /\ returned = result

\* C15 witness: a run has returned one true and one false entry and printed
\* the summary.
C15_Witness ==
    /\ pc = "done"
    /\ stdout.banner
    /\ \E j \in DOMAIN returned : returned[j]
    /\ \E j \in DOMAIN returned : ~returned[j]


\* C16 as claimed: within one run no series is submitted to the pool twice
\* and the client is called at most once for each series.
C16_OncePerSeries ==
    /\ \A k \in DOMAIN futures : futures[k].tries <= 1
    /\ \A k \in DOMAIN futures : \A m \in DOMAIN futures :
          futures[k].series = futures[m].series => k = m

\* C16 as amended: within one run the client is called at most once for each
\* line of the considered list, a failed call is never repeated, and where
\* the manifest names each series once, no series is submitted twice.
C16_OncePerListEntry ==
    /\ \A k \in DOMAIN futures : futures[k].tries <= 1
    /\ \A k \in DOMAIN futures : \A m \in DOMAIN futures :
          futures[k].pos = futures[m].pos => k = m
    /\ NoDuplicates(series_list) =>
          \A k \in DOMAIN futures : \A m \in DOMAIN futures :
              futures[k].series = futures[m].series => k = m

\* C16 witness: of two different series the first failed, both were called
\* once and the run returned.
C16_Witness ==
    /\ pc = "done"
    /\ Len(futures) = 2
    /\ NoDuplicates(series_list)
    /\ ~futures[1].result
    /\ futures[1].tries = 1
    /\ futures[2].tries = 1


(***************************************************************************)
(* Properties of main.                                                     *)
(***************************************************************************)
\* C17: unpack runs only after download_manifest has returned: while an
\* archive is extracted or a file below unpacked/ is moved or renamed, no
\* retrieval call is queued or in flight and none starts or ends, and each
\* step of the reorganization loop puts a file at no more than one path.
C17_UnpackAfterDownloads ==
    /\ [](upc # "idle" =>
            /\ pc = "done"
            /\ Running(futures) = {}
            /\ Pending(futures) = {})
    /\ [][upc # "idle" => (futures' = futures /\ files' = files)]_vars
    /\ [][upc = "loop" =>
            Cardinality({p \in DOMAIN tree' :
                            p \notin DOMAIN tree \/ tree'[p] # tree[p]}) <= 1]_vars

\* C17 witness: after two retrieval calls the pass has moved a file into a
\* case directory.
C17_Witness ==
    /\ upc = "returned"
    /\ Len(futures) = 2
    /\ \E p \in DOMAIN tree : Len(p) = 2


(***************************************************************************)
(* Termination of download_manifest.                                       *)
(***************************************************************************)
\* C20: if every retrieval call returns, download_manifest returns once it
\* has entered the worker-pool block; leaving the block joins the workers,
\* so throughout the result-collection loop every submitted future is done
\* and the wait of lines 71-72 finds its future done the first time it
\* looks, for every number of jobs and every pool size.
C20_DownloadManifestReturns ==
    /\ [](pc = "collect" =>
            /\ \A k \in DOMAIN futures : futures[k].state = "done"
            /\ ci <= Len(futures) => ENABLED Collect)
    /\ (pc = "submit") ~> (pc = "done")

\* C20 witness: the collection loop is at its second future, in a run where
\* the pool had one worker for two tasks.
C20_Witness ==
    /\ pc = "collect"
    /\ jobs = 1
    /\ Len(futures) = 2
    /\ ci = 2

=============================================================================
